---- MODULE Spec2Model ----
(***************************************************************************)
(* Model of the taste-buddy backend (src/backend/serve.go,                 *)
(* src/backend/discounts.go): the recipe/item catalog with the item        *)
(* clean-up pass, and the discount aggregation and read path; and of the  *)
(* frontend's recipe search (src/frontend/src/tastebuddy/types.ts).        *)
(*                                                                         *)
(* The document store is modelled as one sequence per collection, in the   *)
(* store's natural iteration order.  ObjectIDs are positive integers, the  *)
(* zero ObjectID is 0.                                                      *)
(***************************************************************************)
EXTENDS Integers, Sequences, FiniteSets, TLC

VARIABLES
    items,      \* collection "items": sequence of Item documents
    recipes,    \* collection "recipes": sequence of Recipe documents (BSON shape)
    cu,         \* the running / last CleanUpItemsInRecipes call
    resp,       \* what the last catalog handler returned to its caller
    mem,        \* the Recipe value last handed to PrepareRecipeForDB, and the result
    discounts,  \* collection "discounts": sequence of Discount documents
    dresp,      \* what the last discount operation returned to its caller
    fe,         \* the frontend: recipe store, query builder, last suggestRecipes call
    sched,      \* the GoRoutineCleanUpRecipes loop
    workers     \* the SaveDiscountsFromAPI goroutines

catalogVars == <<items, recipes, cu, resp, mem>>
discountVars == <<discounts, dresp>>
vars == <<items, recipes, cu, resp, mem, discounts, dresp, fe, sched, workers>>

(***************************************************************************)
(* Bounds of the model.                                                    *)
(***************************************************************************)
MaxItems == 2
MaxRecipes == 2
MaxSteps == 1
MaxStepItems == 1

ItemNames == {"Flour", "Salt"}
\* the optional attributes (Type, ImgUrl) an item comes with
ItemShapes == {<<"", "">>, <<"ingredient", "">>, <<"", "img">>, <<"ingredient", "img">>}
RecipeNames == {"Bread"}
Amounts == {1}
Units == {"g"}

\* an ObjectID that no document of the collection has
GhostItemID == MaxItems + 1
GhostRecipeID == MaxRecipes + 1

(***************************************************************************)
(* Helpers on sequences.                                                   *)
(***************************************************************************)
Range(s) == {s[i] : i \in DOMAIN s}

SeqsUpTo(S, lo, hi) == UNION {[1..n -> S] : n \in lo..hi}

Min(a, b) == IF a < b THEN a ELSE b

RECURSIVE Sum(_)
Sum(s) == IF s = <<>> THEN 0 ELSE Head(s) + Sum(Tail(s))

(***************************************************************************)
(* Types: Item, StepItem, Step, Recipe (serve.go 74-132).                  *)
(***************************************************************************)
\* Item{}: the zero value of the Item struct
NoItem == [ID |-> 0, Name |-> "", Type |-> "", ImgUrl |-> ""]

\* the Go value of a StepItem: the reference and the embedded Item
StepItem(itemId, amount, unit, item) ==
    [ItemID |-> itemId, Amount |-> amount, Unit |-> unit, Item |-> item]

\* bson encoding of a StepItem: Item carries the tag bson:"-" and is never written
StepItemToBsonEmbedding(si) ==
    [ItemID |-> si.ItemID, Amount |-> si.Amount, Unit |-> si.Unit, Item |-> si.Item]

StepItemToBson(si) ==
    [ItemID |-> si.ItemID, Amount |-> si.Amount, Unit |-> si.Unit]

\* decoding a stored StepItem: the Item field stays at its zero value
StepItemFromBson(d) == StepItem(d.ItemID, d.Amount, d.Unit, NoItem)

StepToBson(step) ==
    [Items |-> [j \in DOMAIN step.Items |-> StepItemToBson(step.Items[j])]]

StepFromBson(d) ==
    [Items |-> [j \in DOMAIN d.Items |-> StepItemFromBson(d.Items[j])]]

\* Props.CreatedAt: the zero time.Time, and what time.Now() returns
ZeroTime == ""
Now == "now"

\* the document InsertOne / $set writes for a Recipe value
RecipeToBson(r) ==
    [ID |-> r.ID, Name |-> r.Name,
     Steps |-> [s \in DOMAIN r.Steps |-> StepToBson(r.Steps[s])],
     CreatedAt |-> r.CreatedAt, Deleted |-> r.Deleted]

\* cursor.All / Decode of a stored document into a Recipe value
RecipeFromBson(d) ==
    [ID |-> d.ID, Name |-> d.Name,
     Steps |-> [s \in DOMAIN d.Steps |-> StepFromBson(d.Steps[s])],
     CreatedAt |-> d.CreatedAt, Deleted |-> d.Deleted]

(***************************************************************************)
(* Items: quality, lookup, AddOrUpdateItem.                                *)
(***************************************************************************)
\* Identity Scorer: the count of populated optional attributes
GetItemQuality(item) ==
    (IF item.Type # "" THEN 1 ELSE 0) + (IF item.ImgUrl # "" THEN 1 ELSE 0)

\* GetAllItems: the full scan of the item collection, in storage order
GetAllItems(its) == its

ItemIDs(its) == {its[i].ID : i \in DOMAIN its}

\* position of the first stored item with the given name, 0 if there is none
FirstByName(its, name) ==
    IF \E i \in DOMAIN its : its[i].Name = name
    THEN CHOOSE i \in DOMAIN its :
            /\ its[i].Name = name
            /\ \A k \in DOMAIN its : its[k].Name = name => i <= k
    ELSE 0

\* AddOrUpdateItem: resolve an embedded Item to an identifier.
\* Result: the item collection afterwards, the identifier, the error ("" = nil).
AddOrUpdateItem(its, item) ==
    IF item.Name = ""
    THEN [items |-> its, id |-> 0, err |-> "ValidationError"]
    ELSE IF item.ID # 0
    THEN [items |-> its, id |-> item.ID, err |-> ""]
    ELSE IF FirstByName(its, item.Name) # 0
    THEN [items |-> its, id |-> its[FirstByName(its, item.Name)].ID, err |-> ""]
    ELSE [items |-> Append(its, [item EXCEPT !.ID = Len(its) + 1]),
          id |-> Len(its) + 1, err |-> ""]

(***************************************************************************)
(* PrepareRecipeForDB (serve.go 371-389).                                  *)
(***************************************************************************)
\* the (step, item) index pairs of a recipe in the order the two loops visit them
RECURSIVE PositionsFrom(_, _, _)
PositionsFrom(r, s, j) ==
    IF s > Len(r.Steps) THEN <<>>
    ELSE IF j > Len(r.Steps[s].Items) THEN PositionsFrom(r, s + 1, 1)
    ELSE <<(<<s, j>>)>> \o PositionsFrom(r, s, j + 1)

Positions(r) == PositionsFrom(r, 1, 1)

\* the loop body for the positions pos[k..]; the recipe's step slices are shared
\* with the caller, so the assignment at line 385 is visible in the caller's value
RECURSIVE PrepareFrom(_, _, _, _)
PrepareFrom(its, r, pos, k) ==
    IF k > Len(pos) THEN [items |-> its, recipe |-> r, err |-> ""]
    ELSE LET s == pos[k][1]
             j == pos[k][2]
             stepItem == r.Steps[s].Items[j]
             res == AddOrUpdateItem(its, stepItem.Item)
         IN  IF res.err # ""
             THEN [items |-> res.items, recipe |-> r, err |-> res.err]
             ELSE PrepareFrom(res.items,
                              [r EXCEPT !.Steps[s].Items[j] =
                                   StepItem(res.id, stepItem.Amount, stepItem.Unit, NoItem)],
                              pos, k + 1)

PrepareRecipeForDB(its, r) == PrepareFrom(its, r, Positions(r), 1)

(***************************************************************************)
(* Read path: GetAllRecipes, MapItemIdsToItem, GetRecipeById               *)
(* (serve.go 257-321).                                                     *)
(***************************************************************************)
\* a lookup that falls back to the first item of the collection
ItemByIdOrFirst(its, id) ==
    IF \E i \in DOMAIN its : its[i].ID = id
    THEN its[CHOOSE i \in DOMAIN its : its[i].ID = id]
    ELSE IF its = <<>> THEN NoItem ELSE its[1]

\* the Go map lookup itemsMap[id]: the item stored under id, or the zero Item
ItemById(its, id) ==
    IF \E i \in DOMAIN its : its[i].ID = id
    THEN its[CHOOSE i \in DOMAIN its :
                /\ its[i].ID = id
                /\ \A k \in DOMAIN its : its[k].ID = id => k <= i]
    ELSE NoItem

MapItemIdsToItem(r, its) ==
    [r EXCEPT !.Steps =
        [s \in DOMAIN r.Steps |->
            [Items |-> [j \in DOMAIN r.Steps[s].Items |->
                [r.Steps[s].Items[j] EXCEPT
                    !.Item = ItemById(its, r.Steps[s].Items[j].ItemID)]]]]]

\* Find with the filter {"deleted": {"$ne": true}}
NotDeleted(recs) == SelectSeq(recs, LAMBDA d : ~d.Deleted)

\* Find without the filter: what GetAllRecipes would read if it did not filter
AllDocuments(recs) == recs

GetAllRecipes(its, recs) ==
    LET found == NotDeleted(recs)
    IN  [i \in DOMAIN found |-> MapItemIdsToItem(RecipeFromBson(found[i]), GetAllItems(its))]

RecipeIDs(recs) == {recs[i].ID : i \in DOMAIN recs}

DocById(recs, id) == recs[CHOOSE i \in DOMAIN recs : recs[i].ID = id]

\* FindOne with the filter {"_id": id}: result and error ("" = nil);
\* FindOne reports a missing document as an error
GetRecipeById(recs, id) ==
    IF id \in RecipeIDs(recs)
    THEN [recipes |-> <<RecipeFromBson(DocById(recs, id))>>, err |-> ""]
    ELSE [recipes |-> <<>>, err |-> "NotFoundError"]

\* the items a hydrated recipe uses
ExtractItems(r) == {r.Steps[p[1]].Items[p[2]].Item : p \in Range(Positions(r))}

(***************************************************************************)
(* Write path: AddOrUpdateRecipe, DeleteRecipeById (serve.go 325-369).     *)
(***************************************************************************)
\* a $set document that carried the "deleted" field whatever its value
SetRecipeWithDeleted(doc, set) ==
    [doc EXCEPT !.Name = set.Name, !.Steps = set.Steps,
                !.CreatedAt = set.CreatedAt, !.Deleted = set.Deleted]

\* UpdateOne with {"$set": newRecipe}: "deleted" is omitempty, so a false flag is
\* not part of the $set document and the stored flag stays as it is
\* "props" is written as a whole sub-document, so the stored createdAt becomes
\* the one of the $set document (absent when that is the zero time)
SetRecipe(doc, set) ==
    [doc EXCEPT !.Name = set.Name, !.Steps = set.Steps,
                !.CreatedAt = set.CreatedAt,
                !.Deleted = IF set.Deleted THEN TRUE ELSE @]

\* UpdateOne with the upsert option: a document is inserted when none matches
UpdateOneUpsert(recs, id, set) ==
    IF \E i \in DOMAIN recs : recs[i].ID = id
    THEN [i \in DOMAIN recs |-> IF recs[i].ID = id THEN SetRecipe(recs[i], set)
                                                  ELSE recs[i]]
    ELSE Append(recs, [set EXCEPT !.ID = id])

UpdateOne(recs, id, set) ==
    [i \in DOMAIN recs |-> IF recs[i].ID = id THEN SetRecipe(recs[i], set) ELSE recs[i]]

\* AddOrUpdateRecipe without the return at line 333: the recipe is written
\* whatever PrepareRecipeForDB returned
AddOrUpdateRecipeAfterAnyPrepare(its, recs, newRecipe, storeFails) ==
    LET prep == PrepareRecipeForDB(its, newRecipe)
        r == prep.recipe
        newId == Len(recs) + 1
    IN  IF r.ID = 0
        THEN [items |-> prep.items,
              recipes |-> Append(recs, RecipeToBson([r EXCEPT !.ID = newId,
                                                               !.CreatedAt = Now])),
              recipe |-> r, id |-> newId, err |-> prep.err]
        ELSE [items |-> prep.items,
              recipes |-> UpdateOne(recs, r.ID, RecipeToBson(r)),
              recipe |-> r, id |-> r.ID, err |-> prep.err]

\* storeFails: the InsertOne / UpdateOne of this call returns an error.
\* A failing InsertOne returns a nil result, which line 342 dereferences: "panic".
AddOrUpdateRecipe(its, recs, newRecipe, storeFails) ==
    LET prep == PrepareRecipeForDB(its, newRecipe)
        r == prep.recipe
        newId == Len(recs) + 1
    IN  IF prep.err # ""
        THEN [items |-> prep.items, recipes |-> recs, recipe |-> r,
              id |-> 0, err |-> prep.err]
        ELSE IF r.ID = 0
        THEN IF storeFails
             THEN [items |-> prep.items, recipes |-> recs, recipe |-> r,
                   id |-> 0, err |-> "panic"]
             ELSE [items |-> prep.items,
                   recipes |-> Append(recs, RecipeToBson([r EXCEPT !.ID = newId,
                                                                    !.CreatedAt = Now])),
                   recipe |-> r, id |-> newId, err |-> ""]
        ELSE IF storeFails
             THEN [items |-> prep.items, recipes |-> recs, recipe |-> r,
                   id |-> r.ID, err |-> "PersistenceError"]
             ELSE [items |-> prep.items,
                   recipes |-> UpdateOne(recs, r.ID, RecipeToBson(r)),
                   recipe |-> r, id |-> r.ID, err |-> ""]

\* UpdateByID with {"$set": {"deleted": true}}
SetDeleted(recs, id) ==
    [i \in DOMAIN recs |-> IF recs[i].ID = id THEN [recs[i] EXCEPT !.Deleted = TRUE]
                                              ELSE recs[i]]

(***************************************************************************)
(* CleanUpItemsInRecipes (serve.go 426-488).                               *)
(***************************************************************************)
EmptyMap == [n \in {} |-> NoItem]

IsBetterItemOrEqual(item, itemFromMap) ==
    GetItemQuality(item) >= GetItemQuality(itemFromMap)

\* line 444
IsBetterItem(item, itemFromMap) ==
    GetItemQuality(item) > GetItemQuality(itemFromMap)

\* lines 438-453: the map name -> "best" item after the first n items
RECURSIVE BestItemMap(_, _)
BestItemMap(its, n) ==
    IF n = 0 THEN EmptyMap
    ELSE LET itemMap == BestItemMap(its, n - 1)
             item == its[n]
         IN  IF item.Name \in DOMAIN itemMap
             THEN IF IsBetterItem(item, itemMap[item.Name])
                  THEN [itemMap EXCEPT ![item.Name] = item]
                  ELSE itemMap
             ELSE [k \in DOMAIN itemMap \cup {item.Name} |->
                      IF k = item.Name THEN item ELSE itemMap[k]]

KeepStepItem(stepItem, itemMap) == stepItem

\* lines 467-473: the replacement of one StepItem
ReplaceStepItem(stepItem, itemMap) ==
    IF stepItem.Item.Name \in DOMAIN itemMap
    THEN StepItem(itemMap[stepItem.Item.Name].ID, stepItem.Amount, stepItem.Unit,
                  itemMap[stepItem.Item.Name])
    ELSE stepItem

\* lines 463-476 for one recipe; the step slices are shared with the recipes list
ReplaceItems(r, itemMap) ==
    [r EXCEPT !.Steps =
        [s \in DOMAIN r.Steps |->
            [Items |-> [j \in DOMAIN r.Steps[s].Items |->
                ReplaceStepItem(r.Steps[s].Items[j], itemMap)]]]]

\* how often line 472 runs for one recipe
CleanedUpIn(r, itemMap) ==
    Cardinality({p \in Range(Positions(r)) :
                    r.Steps[p[1]].Items[p[2]].Item.Name \in DOMAIN itemMap})

(***************************************************************************)
(* The state after start-up.  The database outlives the process: the item  *)
(* collection holds any catalog of named items (independent submissions    *)
(* leave several items with one name); recipes are only ever written by    *)
(* AddOrUpdateRecipe and start empty.                                      *)
(***************************************************************************)
SeedItems ==
    {[ID |-> 0, Name |-> n, Type |-> sh[1], ImgUrl |-> sh[2]] :
        n \in ItemNames, sh \in ItemShapes}

SeedItemStores ==
    {[i \in DOMAIN s |-> [s[i] EXCEPT !.ID = i]] : s \in SeqsUpTo(SeedItems, 0, MaxItems)}

CuIdle ==
    [pc |-> "idle", itemMap |-> EmptyMap, recipes |-> <<>>, attempted |-> 0,
     amountCleanedUp |-> 0, err |-> "", preItems |-> <<>>, preRecipes |-> <<>>,
     runs |-> 0]

NoResp == [op |-> "", id |-> 0, err |-> "", recipes |-> <<>>]

NoDResp ==
    [op |-> "", city |-> "", fetched |-> <<>>, discounts |-> <<>>, err |-> "",
     before |-> <<>>]

NoMem ==
    [calls |-> 0, recipe |-> <<>>, before |-> <<>>, err |-> "", created |-> 0,
     op |-> "", newRecipe |-> <<>>, storeFails |-> FALSE, id |-> 0,
     itemsBefore |-> <<>>, recipesBefore |-> <<>>]

(***************************************************************************)
(* Frontend search (types.ts).  An optional value (number | undefined,     *)
(* string | undefined, boolean | undefined) is a set: {} is undefined,     *)
(* {v} is the value v.                                                      *)
(***************************************************************************)
MaxStoreRecipes == 1
MaxQueryItems == 2
MaxPrice == 1

FeItemIds == {"i1", "i2"}
FeTags == {"vegan"}
FeRecipeIds == <<"r1", "r2", "r3">>
FeName == [r1 |-> "Soup", r2 |-> "Bread", r3 |-> "Stew"]
\* a.getName().localeCompare(b.getName()) < 0 iff a's name has the lower rank
LocaleRank == [Bread |-> 1, Soup |-> 2, Stew |-> 3]

FeSteps == { <<[duration |-> {}]>>, <<[duration |-> {30}]>> }

FeRecipe(id, itemIds, tags, steps) ==
    [id |-> id, name |-> FeName[id], itemsById |-> itemIds, tags |-> tags,
     steps |-> steps]

\* the recipes the store can hold under one identifier
FeRecipesOf(id) ==
    { FeRecipe(id, itemIds, tags, steps) :
        itemIds \in {{}, {"i1"}, FeItemIds}, tags \in SUBSET FeTags, steps \in FeSteps }

\* state.recipes: { [id]: Recipe }
FeStores ==
    UNION { { st \in [S -> UNION {FeRecipesOf(id) : id \in S}] :
                \A id \in S : st[id].id = id } :
            S \in SUBSET {FeRecipeIds[k] : k \in 1..MaxStoreRecipes} }

\* Recipe.getDuration: the sum of step.duration ?? 0 over the steps
StepDuration(step) == IF step.duration = {} THEN 0 ELSE CHOOSE d \in step.duration : TRUE

GetDuration(recipe) == Sum([k \in DOMAIN recipe.steps |-> StepDuration(recipe.steps[k])])

GetTags(recipe) == recipe.tags

\* Recipe.hasItem(id?)
HasItem(recipe, id) == id # {} /\ \E i \in id : i \in recipe.itemsById

\* Recipe.getPrice: floor of the sum of Math.random() * servings over the
\* step items (servings is 1); every call draws again
PriceOutcomes(recipe) ==
    IF recipe.itemsById = {} THEN {0} ELSE 0..(Cardinality(recipe.itemsById) - 1)

\* getRecipesAsList: Object.values(state.recipes) sorted by name
GetRecipesAsList(store) ==
    CHOOSE list \in [1..Cardinality(DOMAIN store) -> Range([id \in DOMAIN store |-> store[id]])] :
        /\ \A id \in DOMAIN store : \E k \in DOMAIN list : list[k] = store[id]
        /\ \A i, k \in DOMAIN list :
             i < k => LocaleRank[list[i].name] < LocaleRank[list[k].name]

\* new SearchQueryBuilder()
NewBuilder == [items |-> <<>>, tags |-> {}, price |-> {0}, duration |-> {0}]

\* SearchQueryBuilder.build()
Build(builder) ==
    [items |-> builder.items, tags |-> builder.tags, price |-> builder.price,
     duration |-> builder.duration]

ItemQueries ==
    { [id |-> {"i1"}, exclude |-> {TRUE}], [id |-> {"i1"}, exclude |-> {FALSE}],
      [id |-> {"i1"}, exclude |-> {}], [id |-> {}, exclude |-> {}],
      [id |-> {"i2"}, exclude |-> {TRUE}] }

\* itemExists !== itemQ.exclude, with exclude possibly undefined
FilterItemQuery(recipe, itemQ) == {HasItem(recipe, itemQ.id)} # itemQ.exclude

\* Array.some in place of Array.every
FilterRecipeByItemsSome(recipe, itemQuery) ==
    \E k \in DOMAIN itemQuery : FilterItemQuery(recipe, itemQuery[k])

FilterRecipeByItems(recipe, itemQuery) ==
    \A k \in DOMAIN itemQuery : FilterItemQuery(recipe, itemQuery[k])

\* "<" in the place of "<="
FilterRecipeByDurationStrict(recipe, maxDuration) ==
    maxDuration = {} \/ \A d \in maxDuration : GetDuration(recipe) < d

FilterRecipeByDuration(recipe, maxDuration) ==
    maxDuration = {} \/ \A d \in maxDuration : GetDuration(recipe) <= d

FilterRecipeByTag(recipe, tags) == \A tag \in tags : tag \in GetTags(recipe)

\* price is what recipe.getPrice() returned in this call
FilterByPrice(price, maxPrice) == maxPrice = {} \/ \A p \in maxPrice : price <= p

\* suggestRecipes: filterPrice[id] and shownPrice[id] are the two getPrice draws
SuggestRecipes(list, query, filterPrice, shownPrice) ==
    LET Keep(recipe) ==
            /\ FilterRecipeByItems(recipe, query.items)
            /\ FilterRecipeByDuration(recipe, query.duration)
            /\ FilterRecipeByTag(recipe, query.tags)
            /\ FilterByPrice(filterPrice[recipe.id], query.price)
        suggestedRecipes == SelectSeq(list, Keep)
    IN  [k \in DOMAIN suggestedRecipes |->
            [recipe_id |-> suggestedRecipes[k].id, recipe |-> suggestedRecipes[k],
             recipe_price |-> shownPrice[suggestedRecipes[k].id],
             missing_items |-> <<>>]]

\* previous: what the evaluation before the last one returned; evaluations: how
\* often suggestRecipes ran on the built query
NoFe ==
    [recipes |-> <<>>, builder |-> NewBuilder, built |-> FALSE,
     query |-> Build(NewBuilder), filterPrice |-> <<>>, suggestions |-> <<>>,
     previous |-> <<>>, evaluations |-> 0]

\* GoRoutineCleanUpRecipes before its first iteration: pc is the statement the
\* loop is at, inProgress counts the CleanUpItemsInRecipes calls that have
\* begun and not returned, passes counts the calls begun
SchedIdle == [pc |-> "call", inProgress |-> 0, passes |-> 0]

\* goroutines running SaveDiscountsFromAPI
Workers == {"w1", "w2"}

WorkerIdle ==
    [pc |-> "idle", city |-> "", batch |-> <<>>, pos |-> 0, matched |-> 0, err |-> ""]

NoWorkers == [w \in Workers |-> WorkerIdle]

Init ==
    /\ items \in SeedItemStores
    /\ recipes = <<>>
    /\ cu = CuIdle
    /\ resp = NoResp
    /\ mem = NoMem
    /\ discounts = <<>>
    /\ dresp = NoDResp
    /\ fe = NoFe
    /\ sched = SchedIdle
    /\ workers = NoWorkers

(***************************************************************************)
(* Requests of the clients.  The JSON binding never fills StepItem.ItemID  *)
(* nor Recipe.Deleted (both are tagged json:"-").                          *)
(***************************************************************************)
\* an embedded item is empty, a new item known by its name, an item as a read
\* returned it, or an item under an identifier the collection does not have
ClientItems(its) ==
    {NoItem} \cup Range(its)
    \cup {[ID |-> 0, Name |-> n, Type |-> "", ImgUrl |-> ""] : n \in ItemNames}
    \cup {[ID |-> GhostItemID, Name |-> "Flour", Type |-> "", ImgUrl |-> ""]}

ClientStepItems(its) ==
    {StepItem(0, a, u, it) : a \in Amounts, u \in Units, it \in ClientItems(its)}

ClientSteps(its) ==
    {[Items |-> x] : x \in SeqsUpTo(ClientStepItems(its), 0, MaxStepItems)}

ClientRecipes(its, recs) ==
    {[ID |-> id, Name |-> n, Steps |-> st, CreatedAt |-> ZeroTime, Deleted |-> FALSE] :
        id \in {0, GhostRecipeID} \cup RecipeIDs(recs),
        n \in RecipeNames,
        st \in SeqsUpTo(ClientSteps(its), 1, MaxSteps)}

\* no handler has a response pending and no clean-up pass is running
Quiet == cu.pc = "idle" /\ resp = NoResp

\* a write of a client ends the "no intervening writes" stretch of the passes
CuAfterWrite == [cu EXCEPT !.runs = 0]

(***************************************************************************)
(* Handlers of the catalog.                                                *)
(***************************************************************************)
\* HandleAddRecipe -> AddOrUpdateRecipe
DoAddOrUpdateRecipe ==
    \E newRecipe \in ClientRecipes(items, recipes), storeFails \in BOOLEAN :
        LET res == AddOrUpdateRecipe(items, recipes, newRecipe, storeFails)
        IN  /\ Len(res.items) <= MaxItems
            /\ Len(res.recipes) <= MaxRecipes
            /\ items' = res.items
            /\ recipes' = res.recipes
            /\ resp' = [op |-> "AddOrUpdateRecipe", id |-> res.id, err |-> res.err,
                        recipes |-> <<>>]
            /\ cu' = CuAfterWrite
            /\ UNCHANGED <<mem, discounts, dresp, fe, sched, workers>>

\* HandleDeleteRecipeById -> DeleteRecipeById
DoDeleteRecipeById ==
    \E id \in RecipeIDs(recipes) \cup {GhostRecipeID}, storeFails \in BOOLEAN :
        /\ recipes' = IF storeFails THEN recipes ELSE SetDeleted(recipes, id)
        /\ resp' = [op |-> "DeleteRecipeById", id |-> id,
                    err |-> IF storeFails THEN "PersistenceError" ELSE "",
                    recipes |-> <<>>]
        /\ cu' = CuAfterWrite
        /\ UNCHANGED <<items, mem, discounts, dresp, fe, sched, workers>>

\* HandleGetAllRecipes -> GetAllRecipes
DoGetAllRecipes ==
    /\ \E storeFails \in BOOLEAN :
        resp' = IF storeFails
                THEN [op |-> "GetAllRecipes", id |-> 0, err |-> "PersistenceError",
                      recipes |-> <<>>]
                ELSE [op |-> "GetAllRecipes", id |-> 0, err |-> "",
                      recipes |-> GetAllRecipes(items, recipes)]
    /\ UNCHANGED <<items, recipes, cu, mem, discounts, dresp, fe, sched, workers>>

\* HandleGetRecipeById -> GetRecipeById
DoGetRecipeById ==
    \E id \in RecipeIDs(recipes) \cup {GhostRecipeID} :
        /\ resp' = [op |-> "GetRecipeById", id |-> id,
                    err |-> GetRecipeById(recipes, id).err,
                    recipes |-> GetRecipeById(recipes, id).recipes]
        /\ UNCHANGED <<items, recipes, cu, mem, discounts, dresp, fe, sched, workers>>

\* HandleGetRandomRecipe: one recipe of GetAllRecipes, at a random index
DoGetRandomRecipe ==
    LET all == GetAllRecipes(items, recipes)
    IN  /\ \/ resp' = [op |-> "GetRandomRecipe", id |-> 0, err |-> "PersistenceError",
                        recipes |-> <<>>]
           \/ /\ all = <<>>
              /\ resp' = [op |-> "GetRandomRecipe", id |-> 0, err |-> "NotFoundError",
                          recipes |-> <<>>]
           \/ \E randomIndex \in DOMAIN all :
                resp' = [op |-> "GetRandomRecipe", id |-> 0, err |-> "",
                         recipes |-> <<all[randomIndex]>>]
        /\ UNCHANGED <<items, recipes, cu, mem, discounts, dresp, fe, sched, workers>>

\* the orders in which a Go map of the given values can be iterated
Orders(S) ==
    {s \in [1..Cardinality(S) -> S] : \A x \in S : \E i \in DOMAIN s : s[i] = x}

\* GetRecipesByItemNames (serve.go 392-422): the recipes of GetAllRecipes that use
\* one of the items, collected in a map keyed by the recipe id
RecipesByItems(its, recs, itemIDs) ==
    {r \in Range(GetAllRecipes(its, recs)) :
        \E it \in ExtractItems(r) : it.ID \in itemIDs /\ it.ID # 0}

DoGetRecipesByItemNames ==
    \E itemIDs \in {{id} : id \in ItemIDs(items) \cup {GhostItemID}} \cup {ItemIDs(items)} :
        \E filteredRecipes \in Orders(RecipesByItems(items, recipes, itemIDs)) :
            /\ resp' = [op |-> "GetRecipesByItemNames", id |-> 0, err |-> "",
                        recipes |-> filteredRecipes]
            /\ UNCHANGED <<items, recipes, cu, mem, discounts, dresp, fe, sched, workers>>

(***************************************************************************)
(* The steps of one CleanUpItemsInRecipes call.                            *)
(***************************************************************************)
\* lines 433-453: GetAllItems and the map of the best item per name
CleanUpGetItems ==
    /\ cu.pc \in {"idle", "done"}
    /\ \E storeFails \in BOOLEAN :
        cu' = IF storeFails
              THEN [CuIdle EXCEPT !.pc = "done", !.err = "PersistenceError"]
              ELSE [CuIdle EXCEPT !.pc = "items",
                                  !.itemMap = BestItemMap(GetAllItems(items), Len(items)),
                                  !.preItems = items,
                                  !.runs = IF cu.pc = "done" /\ cu.err = ""
                                           THEN cu.runs ELSE 0]
    /\ UNCHANGED <<items, recipes, resp, mem, discounts, dresp, fe, sched, workers>>

\* lines 455-476: GetAllRecipes and the replacement loop, on the values in memory
CleanUpGetRecipes ==
    /\ cu.pc = "items"
    /\ \E storeFails \in BOOLEAN :
        LET read == GetAllRecipes(items, recipes)
            replaced == [i \in DOMAIN read |-> ReplaceItems(read[i], cu.itemMap)]
            counted == Sum([i \in DOMAIN read |-> CleanedUpIn(read[i], cu.itemMap)])
        IN  cu' = IF storeFails
                  THEN [cu EXCEPT !.pc = "done", !.err = "PersistenceError", !.runs = 0]
                  ELSE [cu EXCEPT !.pc = IF read = <<>> THEN "done" ELSE "write",
                                  !.recipes = replaced,
                                  !.amountCleanedUp = counted,
                                  !.preRecipes = recipes,
                                  !.runs = IF read = <<>> THEN Min(cu.runs + 1, 2) ELSE @]
    /\ UNCHANGED <<items, recipes, resp, mem, discounts, dresp, fe, sched, workers>>

\* lines 478-487: one round of the write-back loop, and the return after the last
CleanUpWrite ==
    /\ cu.pc = "write"
    /\ \E storeFails \in BOOLEAN :
        LET i == cu.attempted + 1
            res == AddOrUpdateRecipe(items, recipes, cu.recipes[i], storeFails)
        IN  /\ items' = res.items
            /\ recipes' = res.recipes
            /\ cu' = IF res.err # ""
                     THEN [cu EXCEPT !.pc = "done", !.err = res.err, !.attempted = i,
                                     !.recipes[i] = res.recipe, !.runs = 0]
                     ELSE [cu EXCEPT !.pc = IF i = Len(cu.recipes) THEN "done" ELSE "write",
                                     !.attempted = i,
                                     !.recipes[i] = res.recipe,
                                     !.runs = IF i = Len(cu.recipes)
                                              THEN Min(cu.runs + 1, 2) ELSE @]
    /\ UNCHANGED <<resp, mem, discounts, dresp, fe, sched, workers>>

\* line 511: GoRoutineCleanUpRecipes drops what the pass returned
CleanUpReturn ==
    /\ cu.pc = "done"
    /\ cu' = CuIdle
    /\ UNCHANGED <<items, recipes, resp, mem, discounts, dresp, fe, sched, workers>>

\* Success / ServerError: the handler's response leaves the server
Respond ==
    /\ resp # NoResp
    /\ resp' = NoResp
    /\ UNCHANGED <<items, recipes, cu, mem, discounts, dresp, fe, sched, workers>>

(***************************************************************************)
(* The catalog and its clean-up pass; a pass runs to its end before the    *)
(* next request is served, and a request before the next pass starts.      *)
(***************************************************************************)
Next ==
    \/ Quiet /\ DoAddOrUpdateRecipe
    \/ Quiet /\ DoDeleteRecipeById
    \/ Respond
    \/ resp = NoResp /\ CleanUpGetItems
    \/ CleanUpGetRecipes
    \/ CleanUpWrite
    \/ CleanUpReturn

Spec == Init /\ [][Next]_vars

(***************************************************************************)
(* The write path on its own: each AddOrUpdateRecipe call is kept with its *)
(* argument and with the collections as they were before the call, until   *)
(* the call has returned to its caller.                                    *)
(***************************************************************************)
CallAddOrUpdateRecipe ==
    /\ mem = NoMem
    /\ \E newRecipe \in ClientRecipes(items, recipes), storeFails \in BOOLEAN :
        LET res == AddOrUpdateRecipe(items, recipes, newRecipe, storeFails)
        IN  /\ Len(res.items) <= MaxItems
            /\ Len(res.recipes) <= MaxRecipes
            /\ items' = res.items
            /\ recipes' = res.recipes
            /\ mem' = [NoMem EXCEPT !.op = "AddOrUpdateRecipe",
                                    !.newRecipe = newRecipe,
                                    !.storeFails = storeFails,
                                    !.id = res.id, !.err = res.err,
                                    !.itemsBefore = items,
                                    !.recipesBefore = recipes]
    /\ UNCHANGED <<cu, resp, discounts, dresp, fe, sched, workers>>

\* the call has returned (or has panicked) and its frame is gone
ReturnAddOrUpdateRecipe ==
    /\ mem # NoMem
    /\ mem' = NoMem
    /\ UNCHANGED <<items, recipes, cu, resp, discounts, dresp, fe, sched, workers>>

NextWrite ==
    \/ CallAddOrUpdateRecipe
    \/ ReturnAddOrUpdateRecipe

SpecWrite == Init /\ [][NextWrite]_vars

(***************************************************************************)
(* GoRoutineCleanUpRecipes (serve.go 509-516): the loop calls              *)
(* CleanUpItemsInRecipes, then CleanUpUnusedAttributesInRecipes, then      *)
(* sleeps.  Clients write recipes between two iterations of the loop.      *)
(***************************************************************************)
MaxPasses == 2

\* "go app.CleanUpItemsInRecipes()": the loop goes on without waiting
SchedAfterGo(s) ==
    [s EXCEPT !.pc = "attrs", !.inProgress = @ + 1, !.passes = @ + 1]

\* line 511: a plain call, the loop waits inside it
SchedAfterCall(s) ==
    [s EXCEPT !.pc = "inPass", !.inProgress = @ + 1, !.passes = @ + 1]

SchedCall ==
    /\ sched.pc = "call"
    /\ sched.passes < MaxPasses
    /\ sched' = SchedAfterCall(sched)
    /\ UNCHANGED <<catalogVars, discounts, dresp, fe, workers>>

\* CleanUpItemsInRecipes returns to the loop
SchedPassReturns ==
    /\ sched.pc = "inPass"
    /\ cu.pc = "done"
    /\ cu' = CuIdle
    /\ sched' = [sched EXCEPT !.pc = "attrs", !.inProgress = @ - 1]
    /\ UNCHANGED <<items, recipes, resp, mem, discounts, dresp, fe, workers>>

\* lines 498-502: every recipe read is saved again, up to the first error
RECURSIVE SaveAll(_, _, _, _, _)
SaveAll(its, recs, list, k, failAt) ==
    IF k > Len(list) THEN [items |-> its, recipes |-> recs, err |-> ""]
    ELSE LET res == AddOrUpdateRecipe(its, recs, list[k], k = failAt)
         IN  IF res.err # ""
             THEN [items |-> res.items, recipes |-> res.recipes, err |-> res.err]
             ELSE SaveAll(res.items, res.recipes, list, k + 1, failAt)

\* CleanUpUnusedAttributesInRecipes (lines 492-505)
CleanUpUnusedAttributesInRecipes ==
    /\ sched.pc = "attrs"
    /\ \E readFails \in BOOLEAN :
         LET read == GetAllRecipes(items, recipes)
         IN  \E failAt \in 0..Len(read) :
               LET res == IF readFails
                          THEN [items |-> items, recipes |-> recipes,
                                err |-> "PersistenceError"]
                          ELSE SaveAll(items, recipes, read, 1, failAt)
               IN  /\ items' = res.items
                   /\ recipes' = res.recipes
    /\ sched' = [sched EXCEPT !.pc = "sleep"]
    /\ UNCHANGED <<cu, resp, mem, discounts, dresp, fe, workers>>

\* time.Sleep(6 * time.Hour) ends
SchedSleep ==
    /\ sched.pc = "sleep"
    /\ sched' = [sched EXCEPT !.pc = "call"]
    /\ UNCHANGED <<catalogVars, discounts, dresp, fe, workers>>

NextSched ==
    \/ SchedCall
    \/ sched.pc = "inPass" /\ cu.pc = "idle" /\ CleanUpGetItems
    \/ CleanUpGetRecipes
    \/ CleanUpWrite
    \/ SchedPassReturns
    \/ CleanUpUnusedAttributesInRecipes
    \/ SchedSleep
    \/ Quiet /\ sched.pc = "call" /\ DoAddOrUpdateRecipe
    \/ Respond

SpecSched == Init /\ [][NextSched]_vars

(***************************************************************************)
(* The clean-up pass over the item catalogs alone (no recipe is stored).   *)
(***************************************************************************)
NextItemMap ==
    \/ CleanUpGetItems
    \/ CleanUpGetRecipes
    \/ CleanUpReturn

SpecItemMap == Init /\ [][NextItemMap]_vars

(***************************************************************************)
(* The catalog and its read handlers, one request at a time.               *)
(***************************************************************************)
NextRead ==
    \/ Quiet /\ DoAddOrUpdateRecipe
    \/ Quiet /\ DoDeleteRecipeById
    \/ Quiet /\ DoGetAllRecipes
    \/ Quiet /\ DoGetRecipeById
    \/ Quiet /\ DoGetRandomRecipe
    \/ Quiet /\ DoGetRecipesByItemNames
    \/ Respond

SpecRead == Init /\ [][NextRead]_vars

(***************************************************************************)
(* PrepareRecipeForDB on its own: applied to a recipe of a client, and     *)
(* applied again to the value the first call left behind.                  *)
(***************************************************************************)
DoPrepareRecipeForDB ==
    \E r \in ClientRecipes(items, <<>>) :
        LET res == PrepareRecipeForDB(items, r)
        IN  /\ Len(res.items) <= MaxItems
            /\ items' = res.items
            /\ mem' = [NoMem EXCEPT !.calls = 1, !.recipe = res.recipe, !.before = r,
                                    !.err = res.err,
                                    !.created = Len(res.items) - Len(items)]
            /\ UNCHANGED <<recipes, cu, resp, discounts, dresp, fe, sched, workers>>

DoPrepareRecipeForDBAgain ==
    /\ mem.calls >= 1
    /\ mem.err = ""
    /\ LET res == PrepareRecipeForDB(items, mem.recipe)
       IN  /\ Len(res.items) <= MaxItems
           /\ items' = res.items
           /\ mem' = [NoMem EXCEPT !.calls = Min(mem.calls + 1, 2),
                                   !.recipe = res.recipe, !.before = mem.recipe,
                                   !.err = res.err,
                                   !.created = Len(res.items) - Len(items)]
    /\ UNCHANGED <<recipes, cu, resp, discounts, dresp, fe, sched, workers>>

NextPrepare ==
    \/ DoPrepareRecipeForDB
    \/ DoPrepareRecipeForDBAgain

SpecPrepare == Init /\ [][NextPrepare]_vars

(***************************************************************************)
(* The frontend: the recipe store is filled, a query is built with the     *)
(* SearchQueryBuilder and handed to suggestRecipes.                        *)
(***************************************************************************)
backendVars == <<items, recipes, cu, resp, mem, discounts, dresp, sched, workers>>

\* the store's setRecipes
FeSetRecipes ==
    /\ fe.recipes = <<>>
    /\ \E store \in FeStores : fe' = [fe EXCEPT !.recipes = store]
    /\ UNCHANGED backendVars

FeNewBuilder ==
    /\ fe.built
    /\ fe' = [NoFe EXCEPT !.recipes = fe.recipes]
    /\ UNCHANGED backendVars

FeAddItem ==
    /\ ~fe.built
    /\ Len(fe.builder.items) < MaxQueryItems
    /\ \E item \in ItemQueries :
        fe' = [fe EXCEPT !.builder.items = Append(@, item)]
    /\ UNCHANGED backendVars

FeSetTags ==
    /\ ~fe.built
    /\ \E tags \in SUBSET FeTags :
        fe' = [fe EXCEPT !.builder.tags = tags]
    /\ UNCHANGED backendVars

FeSetPrice ==
    /\ ~fe.built
    /\ \E price \in {{}} \cup {{p} : p \in 0..MaxPrice} :
        fe' = [fe EXCEPT !.builder.price = price]
    /\ UNCHANGED backendVars

FeSetDuration ==
    /\ ~fe.built
    /\ \E duration \in {{}, {0}, {30}} :
        fe' = [fe EXCEPT !.builder.duration = duration]
    /\ UNCHANGED backendVars

\* build() and suggestRecipes(query)
FeSuggestRecipes ==
    /\ ~fe.built
    /\ LET query == Build(fe.builder)
           draws == [DOMAIN fe.recipes -> 0..MaxPrice]
       IN  \E filterPrice \in draws, shownPrice \in draws :
             /\ \A id \in DOMAIN fe.recipes :
                  /\ filterPrice[id] \in PriceOutcomes(fe.recipes[id])
                  /\ shownPrice[id] \in PriceOutcomes(fe.recipes[id])
             /\ fe' = [fe EXCEPT !.built = TRUE, !.query = query,
                                 !.filterPrice = filterPrice,
                                 !.suggestions =
                                     SuggestRecipes(GetRecipesAsList(fe.recipes), query,
                                                    filterPrice, shownPrice),
                                 !.evaluations = 1]
    /\ UNCHANGED backendVars

\* suggestRecipes(query) once more, on the same query and the same store
FeSuggestRecipesAgain ==
    /\ fe.built
    /\ fe.evaluations = 1
    /\ DOMAIN fe.filterPrice = DOMAIN fe.recipes
    /\ LET draws == [DOMAIN fe.recipes -> 0..MaxPrice]
       IN  \E filterPrice \in draws, shownPrice \in draws :
             /\ \A id \in DOMAIN fe.recipes :
                  /\ filterPrice[id] \in PriceOutcomes(fe.recipes[id])
                  /\ shownPrice[id] \in PriceOutcomes(fe.recipes[id])
             /\ fe' = [fe EXCEPT !.filterPrice = filterPrice,
                                 !.previous = fe.suggestions,
                                 !.suggestions =
                                     SuggestRecipes(GetRecipesAsList(fe.recipes),
                                                    fe.query, filterPrice, shownPrice),
                                 !.evaluations = 2]
    /\ UNCHANGED backendVars

NextSearch ==
    \/ FeSetRecipes
    \/ FeNewBuilder
    \/ FeAddItem
    \/ FeSetTags
    \/ FeSetPrice
    \/ FeSetDuration
    \/ FeSuggestRecipes
    \/ FeSuggestRecipesAgain

InitSearch == Init /\ items = <<>>

SpecSearch == InitSearch /\ [][NextSearch]_vars

(***************************************************************************)
(* Discounts (discounts.go).  Markets are reference data the backend only  *)
(* reads; a market's distributor tag selects the adapter of its API.       *)
(***************************************************************************)
MaxFetch == 1

Markets ==
    << [ID |-> "M1", City |-> "Konstanz", Distributor |-> "edeka"],
       [ID |-> "M2", City |-> "Konstanz", Distributor |-> "aldi"],
       [ID |-> "M3", City |-> "Konstanz", Distributor |-> "rewe"],
       [ID |-> "M4", City |-> "Berlin", Distributor |-> "aldi"] >>

\* lines 168-173
Cities == <<"Konstanz", "Berlin", "Hamburg", "Muenchen">>

Titles == {"3-for-2 Pasta", "Milk"}

\* what a retailer lists for a promotion; it changes from one fetch to the next
Offers ==
    { [Price |-> "0.99", ImageUrl |-> "a.png", ValidUntil |-> 1,
       MarketName |-> "Markt", Tags |-> <<>>],
      [Price |-> "1.49", ImageUrl |-> "b.png", ValidUntil |-> 2,
       MarketName |-> "Markt am Hafen", Tags |-> <<"angebot">>] }

\* a Discount value as an adapter builds it: no ObjectID yet
Discount(market, title, offer) ==
    [ID |-> 0, Title |-> title, Price |-> offer.Price, ImageUrl |-> offer.ImageUrl,
     ValidUntil |-> offer.ValidUntil, MarketName |-> offer.MarketName,
     InternalMarketID |-> market.ID, Tags |-> offer.Tags]

\* GetMarketsByCity: the markets of the city, an error if there are none
GetMarketsByCity(city) ==
    LET found == SelectSeq(Markets, LAMBDA m : m.City = city)
    IN  [markets |-> found, err |-> IF found = <<>> THEN "NotFoundError" ELSE ""]

\* GetAllMarketIDsByCity: the identifiers of the markets of the city
GetAllMarketIDsByCity(city) == {m.ID : m \in {x \in Range(Markets) : x.City = city}}

\* what GetEdekaDiscounts / GetReweDiscounts can return for a market
AdapterOutcomes(market) ==
    {[list |-> <<>>, err |-> "SourceUnavailable"]}
    \cup {[list |-> l, err |-> ""] :
            l \in SeqsUpTo({Discount(market, ti, o) : ti \in Titles, o \in Offers},
                           0, MaxFetch)}

\* a switch whose default case returns an error
GetDiscountsFromAPIOrError(market) ==
    IF market.Distributor \in {"edeka", "rewe"}
    THEN AdapterOutcomes(market)
    ELSE {[list |-> <<>>, err |-> "UnknownDistributor"]}

\* GetDiscountsFromAPI (lines 103-111): the outcomes of the call for a market
GetDiscountsFromAPI(market) ==
    IF market.Distributor \in {"edeka", "rewe"}
    THEN AdapterOutcomes(market)
    ELSE {[list |-> <<>>, err |-> ""]}

\* lines 153-160 with "break" in the place of "continue"
RECURSIVE CollectUntilError(_, _)
CollectUntilError(fetched, n) ==
    IF n = 0 THEN <<>>
    ELSE IF \E k \in 1..n : fetched[k].err # ""
         THEN CollectUntilError(fetched, n - 1)
         ELSE CollectUntilError(fetched, n - 1) \o fetched[n].list

\* lines 153-160: the loop over the markets, given what each fetch returned
RECURSIVE Collect(_, _)
Collect(fetched, n) ==
    IF n = 0 THEN <<>>
    ELSE IF fetched[n].err # ""
         THEN Collect(fetched, n - 1)
         ELSE Collect(fetched, n - 1) \o fetched[n].list

\* GetDiscountsByCityFromAPI (lines 147-163), given what each fetch returned
GetDiscountsByCityFromAPI(city, fetched) ==
    IF GetMarketsByCity(city).err # "" THEN <<>>
    ELSE Collect(fetched, Len(fetched))

\* the documents the filter {internalMarketId, title} matches, by position
Matching(store, d) ==
    {i \in DOMAIN store :
        store[i].InternalMarketID = d.InternalMarketID /\ store[i].Title = d.Title}

\* "$set": discount -- every field but the omitted zero ObjectID
SetDiscount(doc, d) ==
    [doc EXCEPT !.Title = d.Title, !.Price = d.Price, !.ImageUrl = d.ImageUrl,
                !.ValidUntil = d.ValidUntil, !.MarketName = d.MarketName,
                !.InternalMarketID = d.InternalMarketID, !.Tags = d.Tags]

InsertDiscount(store, d) == Append(store, [d EXCEPT !.ID = Len(store) + 1])

UpsertAlwaysInserts(store, d) == Append(store, [d EXCEPT !.ID = Len(store) + 1])

\* line 138: UpdateOne with upsert: the first matching document is updated, and
\* a new document is inserted when none matches
UpsertDiscount(store, d) ==
    IF Matching(store, d) = {}
    THEN InsertDiscount(store, d)
    ELSE LET first == CHOOSE i \in Matching(store, d) :
                         \A k \in Matching(store, d) : i <= k
         IN  [store EXCEPT ![first] = SetDiscount(store[first], d)]

\* a loop that goes on after the failing UpdateOne and reports it at the end
RECURSIVE UpsertAllContinue(_, _, _, _)
UpsertAllContinue(store, batch, k, failAt) ==
    IF k > Len(batch)
    THEN [discounts |-> store,
          err |-> IF failAt \in DOMAIN batch THEN "PersistenceError" ELSE ""]
    ELSE IF k = failAt THEN UpsertAllContinue(store, batch, k + 1, failAt)
    ELSE UpsertAllContinue(UpsertDiscount(store, batch[k]), batch, k + 1, failAt)

\* AddDiscounts (lines 128-144): the upserts in order; failAt is the position of
\* the UpdateOne that returns an error, 0 if none does
RECURSIVE UpsertAll(_, _, _, _)
UpsertAll(store, batch, k, failAt) ==
    IF k > Len(batch) THEN [discounts |-> store, err |-> ""]
    ELSE IF k = failAt THEN [discounts |-> store, err |-> "PersistenceError"]
    ELSE UpsertAll(UpsertDiscount(store, batch[k]), batch, k + 1, failAt)

AddDiscounts(store, batch, failAt) == UpsertAll(store, batch, 1, failAt)

AllDiscounts(found) == Range(found)

DedupByTitleLast(found) ==
    {found[i] : i \in {k \in DOMAIN found :
                          \A j \in (k + 1)..Len(found) : found[j].Title # found[k].Title}}

\* lines 83-91: the first discount of each title, in the order of the cursor
DedupByTitle(found) ==
    {found[i] : i \in {k \in DOMAIN found :
                          \A j \in 1..(k - 1) : found[j].Title # found[k].Title}}

\* GetDiscountsByCity (lines 60-100); the result is read off a Go map, whose
\* iteration order is not fixed
GetDiscountsByCity(store, city) ==
    IF GetAllMarketIDsByCity(city) = {}
    THEN [results |-> {<<>>}, err |-> "NotFoundError"]
    ELSE LET found == SelectSeq(store,
                        LAMBDA d : d.InternalMarketID \in GetAllMarketIDsByCity(city))
         IN  [results |-> Orders(DedupByTitle(found)), err |-> ""]

\* what the fetches of the given markets can return, in market order
RECURSIVE FetchResults(_)
FetchResults(ms) ==
    IF ms = <<>> THEN {<<>>}
    ELSE {<<o>> \o rest : o \in GetDiscountsFromAPI(Head(ms)),
                          rest \in FetchResults(Tail(ms))}

DQuiet == dresp = NoDResp

\* SaveDiscountsFromAPI (lines 182-190)
SaveDiscountsFromAPI ==
    \E c \in DOMAIN Cities :
      \E fetched \in FetchResults(GetMarketsByCity(Cities[c]).markets) :
        LET batch == GetDiscountsByCityFromAPI(Cities[c], fetched)
        IN  \E failAt \in 0..Len(batch) :
              LET res == AddDiscounts(discounts, batch, failAt)
              IN  /\ discounts' = res.discounts
                  /\ dresp' = [op |-> "SaveDiscountsFromAPI", city |-> Cities[c],
                               fetched |-> fetched, discounts |-> batch,
                               err |-> res.err, before |-> discounts]
                  /\ UNCHANGED <<catalogVars, fe, sched, workers>>

\* HandleGetDiscountsByCity -> GetDiscountsByCity
DoGetDiscountsByCity ==
    \E c \in DOMAIN Cities :
      \E result \in GetDiscountsByCity(discounts, Cities[c]).results, storeFails \in BOOLEAN :
        /\ dresp' = IF storeFails /\ GetDiscountsByCity(discounts, Cities[c]).err = ""
                    THEN [op |-> "GetDiscountsByCity", city |-> Cities[c],
                          fetched |-> <<>>, discounts |-> <<>>,
                          err |-> "PersistenceError", before |-> <<>>]
                    ELSE [op |-> "GetDiscountsByCity", city |-> Cities[c],
                          fetched |-> <<>>, discounts |-> result,
                          err |-> GetDiscountsByCity(discounts, Cities[c]).err,
                          before |-> <<>>]
        /\ UNCHANGED <<discounts, items, recipes, cu, resp, mem, fe, sched, workers>>

\* HandleGetAllDiscounts -> GetAllDiscounts (lines 114-125)
DoGetAllDiscounts ==
    /\ \E storeFails \in BOOLEAN :
        dresp' = [op |-> "GetAllDiscounts", city |-> "", fetched |-> <<>>,
                  discounts |-> IF storeFails THEN <<>> ELSE discounts,
                  err |-> IF storeFails THEN "PersistenceError" ELSE "",
                  before |-> <<>>]
    /\ UNCHANGED <<discounts, items, recipes, cu, resp, mem, fe, sched, workers>>

\* the result of the operation reaches its caller
DRespond ==
    /\ dresp # NoDResp
    /\ dresp' = NoDResp
    /\ UNCHANGED <<discounts, items, recipes, cu, resp, mem, fe, sched, workers>>

NextDiscounts ==
    \/ DQuiet /\ SaveDiscountsFromAPI
    \/ DQuiet /\ DoGetDiscountsByCity
    \/ DQuiet /\ DoGetAllDiscounts
    \/ DRespond

InitDiscounts == Init /\ items = <<>>

SpecDiscounts == InitDiscounts /\ [][NextDiscounts]_vars

(***************************************************************************)
(* SaveDiscountsFromAPI as goroutines (GoRoutineSaveDiscountsToDB starts   *)
(* one per city with "go", and nothing keeps a second refresh from         *)
(* starting while the first runs).  The collection has no unique index on  *)
(* (internalMarketId, title), so the store carries out an upsert as a      *)
(* look-up of the filter followed by an update of the match or an insert,  *)
(* and the upserts of other goroutines come in between.                    *)
(***************************************************************************)
MaxStored == 2

\* go app.SaveDiscountsFromAPI(city): the fetches and the aggregation
WorkerFetch(w) ==
    /\ workers[w].pc = "idle"
    /\ Len(discounts) < MaxStored
    /\ \E c \in DOMAIN Cities :
         \E fetched \in FetchResults(GetMarketsByCity(Cities[c]).markets) :
           LET batch == GetDiscountsByCityFromAPI(Cities[c], fetched)
           IN  workers' = [workers EXCEPT ![w] =
                   [pc |-> IF batch = <<>> THEN "done" ELSE "find",
                    city |-> Cities[c], batch |-> batch, pos |-> 1,
                    matched |-> 0, err |-> ""]]
    /\ UNCHANGED <<catalogVars, discounts, dresp, fe, sched>>

\* line 138, first half: the store looks the filter up, or the call fails
WorkerFind(w) ==
    /\ workers[w].pc = "find"
    /\ LET d == workers[w].batch[workers[w].pos]
           first == IF Matching(discounts, d) = {} THEN 0
                    ELSE CHOOSE i \in Matching(discounts, d) :
                            \A k \in Matching(discounts, d) : i <= k
       IN  \E fails \in BOOLEAN :
             workers' = [workers EXCEPT ![w] =
                 IF fails
                 THEN [@ EXCEPT !.pc = "done", !.err = "PersistenceError"]
                 ELSE [@ EXCEPT !.pc = "write", !.matched = first]]
    /\ UNCHANGED <<catalogVars, discounts, dresp, fe, sched>>

\* line 138, second half: the match is updated, or the document is inserted
WorkerWrite(w) ==
    /\ workers[w].pc = "write"
    /\ LET d == workers[w].batch[workers[w].pos]
           m == workers[w].matched
       IN  discounts' = IF m = 0 THEN InsertDiscount(discounts, d)
                        ELSE [discounts EXCEPT ![m] = SetDiscount(discounts[m], d)]
    /\ workers' = [workers EXCEPT ![w] =
           [@ EXCEPT !.pc = IF workers[w].pos = Len(workers[w].batch)
                            THEN "done" ELSE "find",
                     !.pos = @ + 1, !.matched = 0]]
    /\ UNCHANGED <<catalogVars, dresp, fe, sched>>

\* SaveDiscountsFromAPI returns and the goroutine ends
WorkerReturn(w) ==
    /\ workers[w].pc = "done"
    /\ workers' = [workers EXCEPT ![w] = WorkerIdle]
    /\ UNCHANGED <<catalogVars, discounts, dresp, fe, sched>>

NextIngest ==
    \/ \E w \in Workers : WorkerFetch(w)
    \/ \E w \in Workers : WorkerFind(w)
    \/ \E w \in Workers : WorkerWrite(w)
    \/ \E w \in Workers : WorkerReturn(w)

SpecIngest == InitDiscounts /\ [][NextIngest]_vars

(***************************************************************************)
(* Properties of the clean-up pass.                                        *)
(***************************************************************************)
\* positions of the items with the given name
Named(its, name) == {i \in DOMAIN its : its[i].Name = name}

\* the canonical item of a name: the strictly highest quality score, and among
\* the items of the highest score the first in storage order
Canonical(its, name) ==
    its[CHOOSE i \in Named(its, name) :
            \A k \in Named(its, name) :
                \/ GetItemQuality(its[k]) < GetItemQuality(its[i])
                \/ GetItemQuality(its[k]) = GetItemQuality(its[i]) /\ i <= k]

\* id is the identifier of a stored item that is not the canonical item of its name
IsStale(its, id) ==
    /\ id \in ItemIDs(its)
    /\ Canonical(its, ItemById(its, id).Name).ID # id

\* the item identifier a stored recipe document holds at a position
RefAt(d, p) == d.Steps[p[1]].Items[p[2]].ItemID

PassSucceeded == cu.pc = "done" /\ cu.err = ""

\* C1: after a pass that ran to its end, every StepItem of a non-deleted recipe
\* that referenced a non-canonical item before the pass references the canonical
\* item of that name, and no non-deleted recipe references a stale duplicate.
C1_RewriteComplete ==
    PassSucceeded =>
        /\ \A d \in Range(cu.preRecipes) :
             ~d.Deleted =>
                \A p \in Range(Positions(d)) :
                    IsStale(cu.preItems, RefAt(d, p)) =>
                        RefAt(DocById(recipes, d.ID), p) =
                            Canonical(cu.preItems,
                                      ItemById(cu.preItems, RefAt(d, p)).Name).ID
        /\ \A d \in Range(recipes) :
             ~d.Deleted => \A p \in Range(Positions(d)) : ~IsStale(items, RefAt(d, p))

C1_Witness ==
    /\ PassSucceeded
    /\ \E d \in Range(cu.preRecipes) :
         /\ ~d.Deleted
         /\ \E p \in Range(Positions(d)) : IsStale(cu.preItems, RefAt(d, p))

\* C2: the map of a pass holds, for every name in the item collection, the item
\* of the strictly highest quality score whatever its position, and the first
\* in storage order among several items of the highest score.
C2_CanonicalTieBreak ==
    cu.pc \in {"items", "write"} =>
        \A i \in DOMAIN cu.preItems :
            /\ cu.preItems[i].Name \in DOMAIN cu.itemMap
            /\ cu.itemMap[cu.preItems[i].Name] =
                   Canonical(cu.preItems, cu.preItems[i].Name)

C2_Witness ==
    /\ cu.pc = "items"
    /\ \E i, k \in DOMAIN cu.preItems :
         /\ i < k
         /\ cu.preItems[i].Name = cu.preItems[k].Name
         /\ GetItemQuality(cu.preItems[k]) > GetItemQuality(cu.preItems[i])
         /\ cu.itemMap[cu.preItems[k].Name].ID = cu.preItems[k].ID

\* C3: the second of two passes in a row, with no write in between, counts no
\* rewritten reference.
C3_SecondPassCountsNothing ==
    (PassSucceeded /\ cu.runs >= 2) => cu.amountCleanedUp = 0

\* C4: when persisting one recipe of the write-back fails, the write-back of
\* every other recipe of the pass is still attempted.
C4_WriteBackContinues ==
    (cu.pc = "done" /\ cu.err = "PersistenceError" /\ cu.recipes # <<>>) =>
        cu.attempted = Len(cu.recipes)

\* C8: every stored recipe document holds, for each StepItem, the item identifier
\* with amount and unit and nothing of the item's content.
C8_StoreByReference ==
    \A d \in Range(recipes) :
        \A p \in Range(Positions(d)) :
            /\ DOMAIN d.Steps[p[1]].Items[p[2]] = {"ItemID", "Amount", "Unit"}
            /\ RefAt(d, p) # 0

C8_Witness ==
    /\ resp.op = "AddOrUpdateRecipe"
    /\ resp.err = ""
    /\ resp.id \in RecipeIDs(recipes)
    /\ Positions(DocById(recipes, resp.id)) # <<>>

(***************************************************************************)
(* Properties of PrepareRecipeForDB.                                       *)
(***************************************************************************)
\* C9: PrepareRecipeForDB applied to a recipe it has already normalized succeeds,
\* leaves every StepItem's item identifier as it is and creates no item.
C9_NormalizerIdempotent ==
    mem.calls = 2 =>
        /\ mem.err = ""
        /\ mem.created = 0
        /\ \A p \in Range(Positions(mem.before)) :
             RefAt(mem.recipe, p) = RefAt(mem.before, p)

(***************************************************************************)
(* Properties of the read handlers.                                        *)
(***************************************************************************)
ReadOps == {"GetAllRecipes", "GetRecipeById", "GetRandomRecipe", "GetRecipesByItemNames"}

\* C10: a recipe deleted by DeleteRecipeById stays in storage with its deleted
\* flag set, and no read handler returns a recipe whose flag is set.
C10_SoftDelete ==
    /\ (resp.op = "DeleteRecipeById" /\ resp.err = "" /\ resp.id # GhostRecipeID) =>
            /\ resp.id \in RecipeIDs(recipes)
            /\ DocById(recipes, resp.id).Deleted
    /\ resp.op \in ReadOps =>
            \A r \in Range(resp.recipes) : ~DocById(recipes, r.ID).Deleted

(***************************************************************************)
(* Properties of the discounts.                                            *)
(***************************************************************************)
SameOffer(doc, d) ==
    /\ doc.Title = d.Title /\ doc.InternalMarketID = d.InternalMarketID
    /\ doc.Price = d.Price /\ doc.ImageUrl = d.ImageUrl
    /\ doc.ValidUntil = d.ValidUntil /\ doc.MarketName = d.MarketName
    /\ doc.Tags = d.Tags

\* the last discount of a batch with the key of its k-th discount
LastOfKey(batch, k) ==
    batch[CHOOSE i \in DOMAIN batch :
            /\ batch[i].InternalMarketID = batch[k].InternalMarketID
            /\ batch[i].Title = batch[k].Title
            /\ \A j \in DOMAIN batch :
                 (batch[j].InternalMarketID = batch[k].InternalMarketID
                    /\ batch[j].Title = batch[k].Title) => j <= i]

Saved == dresp.op = "SaveDiscountsFromAPI" /\ dresp.err = ""

\* C5: after a discount with a (internalMarketId, title) is ingested and one with
\* the same pair is ingested again, the store holds exactly one record of the pair
\* and its fields are those of the second ingestion.
C5_UpsertIdempotent ==
    Saved =>
        \A k \in DOMAIN dresp.discounts :
            /\ Cardinality(Matching(discounts, dresp.discounts[k])) = 1
            /\ \A i \in Matching(discounts, dresp.discounts[k]) :
                 SameOffer(discounts[i], LastOfKey(dresp.discounts, k))

C5_Witness ==
    /\ Saved
    /\ \E k \in DOMAIN dresp.discounts :
         \E i \in Matching(dresp.before, dresp.discounts[k]) :
            ~SameOffer(dresp.before[i], dresp.discounts[k])

\* the concatenation of the lists of the fetches that succeeded, in market order
RECURSIVE Succeeded(_)
Succeeded(fetched) ==
    IF fetched = <<>> THEN <<>>
    ELSE (IF Head(fetched).err = "" THEN Head(fetched).list ELSE <<>>)
            \o Succeeded(Tail(fetched))

\* C6: for a city with at least one market the aggregation returns the lists of
\* all markets whose fetch succeeded, concatenated in market order and without
\* de-duplication; a market whose fetch fails adds nothing and stops nothing.
C6_BranchIsolation ==
    (dresp.op = "SaveDiscountsFromAPI" /\ dresp.fetched # <<>>) =>
        dresp.discounts = Succeeded(dresp.fetched)

C6_Witness ==
    /\ dresp.op = "SaveDiscountsFromAPI"
    /\ \E i, k \in DOMAIN dresp.fetched :
         /\ i < k
         /\ dresp.fetched[i].err # ""
         /\ dresp.fetched[k].err = ""
         /\ dresp.fetched[k].list # <<>>
         /\ dresp.discounts = dresp.fetched[k].list

StoredOfCity(city) ==
    {d \in Range(discounts) : d.InternalMarketID \in GetAllMarketIDsByCity(city)}

\* C7: for a city with at least one market GetDiscountsByCity returns one
\* discount for each title stored for the city's markets and no title twice.
C7_DedupByTitle ==
    (dresp.op = "GetDiscountsByCity" /\ dresp.err = "") =>
        /\ {d.Title : d \in Range(dresp.discounts)} =
               {d.Title : d \in StoredOfCity(dresp.city)}
        /\ \A i, k \in DOMAIN dresp.discounts :
               dresp.discounts[i].Title = dresp.discounts[k].Title => i = k

C7_Witness ==
    /\ dresp.op = "GetDiscountsByCity"
    /\ dresp.err = ""
    /\ \E d, e \in StoredOfCity(dresp.city) :
         d.Title = e.Title /\ d.InternalMarketID # e.InternalMarketID
    /\ dresp.discounts # <<>>

(***************************************************************************)
(* Claims about the frontend search.                                       *)
(***************************************************************************)
\* the query holds an include entry and an exclude entry for one item id
Conflicting(query) ==
    \E i, k \in DOMAIN query.items :
        /\ query.items[i].id # {}
        /\ query.items[i].id = query.items[k].id
        /\ query.items[i].exclude = {FALSE}
        /\ query.items[k].exclude = {TRUE}

\* C11: a query with an include entry and an exclude entry for the same item
\* id makes suggestRecipes return no recipe, whatever the store holds.
C11_FilterConflict ==
    (fe.built /\ Conflicting(fe.query)) => fe.suggestions = <<>>

C11_Witness ==
    /\ fe.built
    /\ Conflicting(fe.query)
    /\ fe.query.tags = {} /\ fe.query.price = {} /\ fe.query.duration = {}
    /\ \E a \in DOMAIN fe.recipes : "i1" \in fe.recipes[a].itemsById

\* what new SearchQueryBuilder().setPrice(p).build() returns
OnlyPriceSet(p) == Build([NewBuilder EXCEPT !.price = {p}])

\* C12: for the query of a builder on which only setPrice(p) was called,
\* suggestRecipes returns every recipe of the store whose price is at most p.
C12_OnlyMaxPrice ==
    (fe.built /\ \E p \in 0..MaxPrice : fe.query = OnlyPriceSet(p)) =>
        \A id \in DOMAIN fe.recipes :
            (\A p \in fe.query.price : fe.filterPrice[id] <= p) =>
                \E k \in DOMAIN fe.suggestions : fe.suggestions[k].recipe_id = id

(***************************************************************************)
(* Claims about the error paths of the discount aggregation.               *)
(***************************************************************************)
\* C13: the aggregation for a city without a market reports a not-found error
\* to the caller of GetDiscountsByCityFromAPI.
C13_NoMarketIsNotFound ==
    (dresp.op = "SaveDiscountsFromAPI" /\ GetMarketsByCity(dresp.city).err # "") =>
        dresp.err = "NotFoundError"

HasAdapter(market) == market.Distributor \in {"edeka", "rewe"}

\* C14: the fetch for a market whose distributor has no adapter returns an empty
\* list and no error, and the lists of the city's other markets are still
\* aggregated.
C14_UnknownDistributor ==
    dresp.op = "SaveDiscountsFromAPI" =>
        LET markets == GetMarketsByCity(dresp.city).markets
        IN  \A k \in DOMAIN markets :
              /\ ~HasAdapter(markets[k]) =>
                    dresp.fetched[k] = [list |-> <<>>, err |-> ""]
              /\ (HasAdapter(markets[k]) /\ dresp.fetched[k].err = "") =>
                    \A d \in Range(dresp.fetched[k].list) : d \in Range(dresp.discounts)

C14_Witness ==
    /\ dresp.op = "SaveDiscountsFromAPI"
    /\ dresp.err = ""
    /\ LET markets == GetMarketsByCity(dresp.city).markets
       IN  \E i, j, k \in DOMAIN markets :
             /\ i < j /\ j < k
             /\ ~HasAdapter(markets[j])
             /\ dresp.fetched[i].list # <<>>
             /\ dresp.fetched[k].list # <<>>
             /\ Len(dresp.discounts) = Len(dresp.fetched[i].list) + Len(dresp.fetched[k].list)

(***************************************************************************)
(* Claims about concurrent executions.                                     *)
(***************************************************************************)
\* C15: whatever the interleaving of the SaveDiscountsFromAPI executions, the
\* store holds at most one discount per (internalMarketId, title) pair.
C15_OnePerKeyUnderInterleaving ==
    \A i, k \in DOMAIN discounts :
        (/\ discounts[i].InternalMarketID = discounts[k].InternalMarketID
         /\ discounts[i].Title = discounts[k].Title) => i = k

\* C16: no two CleanUpItemsInRecipes calls are in progress at once, and the
\* loop of GoRoutineCleanUpRecipes is at its call only when no pass is running.
C16_PassesSerialized ==
    /\ sched.inProgress <= 1
    /\ sched.pc = "call" => (sched.inProgress = 0 /\ cu.pc = "idle")
    /\ cu.pc # "idle" => sched.inProgress = 1

C16_Witness ==
    /\ sched.passes = MaxPasses
    /\ sched.inProgress = 1
    /\ cu.pc = "write"
    /\ cu.attempted > 0

(***************************************************************************)
(* Claims about the write path of a recipe.                                *)
(***************************************************************************)
\* an AddOrUpdateRecipe call has just acted and has not returned yet
RecipeSaved == mem.op = "AddOrUpdateRecipe"

\* what PrepareRecipeForDB made of the argument of the call
Prepared == PrepareRecipeForDB(mem.itemsBefore, mem.newRecipe)

\* C17: a successful AddOrUpdateRecipe of a recipe without identifier appends one
\* document with a fresh identifier and a creation timestamp and returns that
\* identifier; of a recipe with an identifier it returns that identifier, adds
\* no document, and changes only the document of that identifier, which takes
\* the recipe's content.
C17_InsertOrUpdateInPlace ==
    (RecipeSaved /\ mem.err = "") =>
        IF mem.newRecipe.ID = 0
        THEN /\ Len(recipes) = Len(mem.recipesBefore) + 1
             /\ SubSeq(recipes, 1, Len(mem.recipesBefore)) = mem.recipesBefore
             /\ recipes[Len(recipes)].ID = mem.id
             /\ mem.id # 0
             /\ mem.id \notin RecipeIDs(mem.recipesBefore)
             /\ recipes[Len(recipes)].CreatedAt # ZeroTime
        ELSE /\ mem.id = mem.newRecipe.ID
             /\ Len(recipes) = Len(mem.recipesBefore)
             /\ \A i \in DOMAIN recipes :
                  /\ recipes[i].ID = mem.recipesBefore[i].ID
                  /\ recipes[i].ID # mem.id => recipes[i] = mem.recipesBefore[i]
                  /\ recipes[i].ID = mem.id =>
                        /\ recipes[i].Name = mem.newRecipe.Name
                        /\ recipes[i].Steps = RecipeToBson(Prepared.recipe).Steps

C17_Witness ==
    /\ RecipeSaved
    /\ mem.err = ""
    /\ mem.newRecipe.ID \in RecipeIDs(mem.recipesBefore)
    /\ Len(recipes) = MaxRecipes
    /\ recipes # mem.recipesBefore

\* C19: when the InsertOne or the UpdateOne of an AddOrUpdateRecipe call fails,
\* the call returns an error to its caller.
C19_StoreFailureSurfaced ==
    (RecipeSaved /\ mem.storeFails /\ Prepared.err = "") =>
        mem.err \notin {"", "panic"}

\* C20: when PrepareRecipeForDB fails, AddOrUpdateRecipe returns that error and
\* the recipes collection is as it was before the call.
C20_ValidationFailureTerminal ==
    (RecipeSaved /\ Prepared.err # "") =>
        /\ mem.err = Prepared.err
        /\ recipes = mem.recipesBefore

C20_Witness ==
    /\ RecipeSaved
    /\ mem.err = "ValidationError"
    /\ mem.newRecipe.ID \in RecipeIDs(mem.recipesBefore)
    /\ RecipeToBson(Prepared.recipe).Steps # DocById(recipes, mem.newRecipe.ID).Steps

(***************************************************************************)
(* Claims about hydration.                                                 *)
(***************************************************************************)
\* the StepItem is hydrated as the claim says: the item record of its
\* identifier, or the empty item when the collection has no such record
Hydrated(stepItem) ==
    IF stepItem.ItemID \in ItemIDs(items)
    THEN \E k \in DOMAIN items :
            items[k].ID = stepItem.ItemID /\ stepItem.Item = items[k]
    ELSE stepItem.Item = NoItem

\* C18: a successful GetAllRecipes returns every non-deleted recipe, a StepItem
\* whose identifier matches no item carrying the empty item and every other
\* StepItem carrying the item record of its identifier.
C18_HydrationTolerance ==
    (resp.op = "GetAllRecipes" /\ resp.err = "") =>
        /\ Len(resp.recipes) = Len(NotDeleted(recipes))
        /\ \A i \in DOMAIN resp.recipes :
             /\ resp.recipes[i].ID = NotDeleted(recipes)[i].ID
             /\ \A p \in Range(Positions(resp.recipes[i])) :
                  /\ RefAt(resp.recipes[i], p) = RefAt(NotDeleted(recipes)[i], p)
                  /\ Hydrated(resp.recipes[i].Steps[p[1]].Items[p[2]])

C18_Witness ==
    /\ resp.op = "GetAllRecipes"
    /\ resp.err = ""
    /\ \E i, k \in DOMAIN resp.recipes :
         \E p \in Range(Positions(resp.recipes[i])), q \in Range(Positions(resp.recipes[k])) :
            /\ RefAt(resp.recipes[i], p) \notin ItemIDs(items)
            /\ resp.recipes[i].Steps[p[1]].Items[p[2]].Item = NoItem
            /\ RefAt(resp.recipes[k], q) \in ItemIDs(items)
            /\ resp.recipes[k].Steps[q[1]].Items[q[2]].Item # NoItem

\* a stored recipe document holds, at some position, an item identifier the
\* item collection does not have
Dangling(its, d) ==
    \E p \in Range(Positions(d)) : RefAt(d, p) \notin ItemIDs(its)

\* C21: after a pass that was not stopped by the store, every StepItem of every
\* non-deleted recipe references an identifier of the item collection, also
\* where it referenced none before the pass.
C21_NoDanglingAfterPass ==
    (cu.pc = "done" /\ cu.err # "PersistenceError") =>
        \A d \in Range(recipes) : ~d.Deleted => ~Dangling(items, d)

\* the stored discounts of the markets of a city, in storage order
FoundOfCity(city) ==
    SelectSeq(discounts, LAMBDA d : d.InternalMarketID \in GetAllMarketIDsByCity(city))

\* C22: of several stored discounts of a city's markets that share a title,
\* GetDiscountsByCity returns the one that comes first in storage order.
C22_FirstEncounteredWins ==
    (dresp.op = "GetDiscountsByCity" /\ dresp.err = "") =>
        \A r \in Range(dresp.discounts) :
            \E k \in DOMAIN FoundOfCity(dresp.city) :
                /\ FoundOfCity(dresp.city)[k] = r
                /\ \A j \in 1..(k - 1) : FoundOfCity(dresp.city)[j].Title # r.Title

C22_Witness ==
    /\ dresp.op = "GetDiscountsByCity"
    /\ dresp.err = ""
    /\ \E i, k \in DOMAIN FoundOfCity(dresp.city) :
         /\ i < k
         /\ FoundOfCity(dresp.city)[i].Title = FoundOfCity(dresp.city)[k].Title
         /\ FoundOfCity(dresp.city)[i] # FoundOfCity(dresp.city)[k]
         /\ FoundOfCity(dresp.city)[i] \in Range(dresp.discounts)

(***************************************************************************)
(* Reads that interleave with a pass.  GetAllRecipes reads the recipe      *)
(* collection and then the item collection (serve.go 261 and 277); a step  *)
(* of a pass may run between the two reads.  The clients write only while  *)
(* no pass and no read is under way.                                       *)
(***************************************************************************)
\* lines 259-274: Find and cursor.All; the documents are decoded into Recipe values
ReadFind ==
    /\ resp = NoResp
    /\ \E storeFails \in BOOLEAN :
        resp' = IF storeFails
                THEN [op |-> "GetAllRecipes", id |-> 0, err |-> "PersistenceError",
                      recipes |-> <<>>]
                ELSE [op |-> "Find", id |-> 0, err |-> "",
                      recipes |-> [i \in DOMAIN NotDeleted(recipes) |->
                                      RecipeFromBson(NotDeleted(recipes)[i])]]
    /\ UNCHANGED <<items, recipes, cu, mem, discounts, dresp, fe, sched, workers>>

ReadHydrateMixed ==
    /\ resp.op = "Find"
    /\ resp' = [op |-> "GetAllRecipes", id |-> 0, err |-> "",
                recipes |-> [i \in DOMAIN resp.recipes |->
                    LET r == MapItemIdsToItem(resp.recipes[i], GetAllItems(items))
                        d == DocById(recipes, r.ID)
                    IN  [r EXCEPT !.Steps =
                            [s \in DOMAIN r.Steps |->
                                [Items |-> [j \in DOMAIN r.Steps[s].Items |->
                                    [r.Steps[s].Items[j] EXCEPT
                                        !.ItemID = d.Steps[s].Items[j].ItemID]]]]]]]
    /\ UNCHANGED <<items, recipes, cu, mem, discounts, dresp, fe, sched, workers>>

\* lines 276-288: GetAllItems, and MapItemIdsToItem on every recipe found
ReadHydrate ==
    /\ resp.op = "Find"
    /\ \E storeFails \in BOOLEAN :
        resp' = IF storeFails
                THEN [op |-> "GetAllRecipes", id |-> 0, err |-> "PersistenceError",
                      recipes |-> <<>>]
                ELSE [op |-> "GetAllRecipes", id |-> 0, err |-> "",
                      recipes |-> [i \in DOMAIN resp.recipes |->
                          MapItemIdsToItem(resp.recipes[i], GetAllItems(items))]]
    /\ UNCHANGED <<items, recipes, cu, mem, discounts, dresp, fe, sched, workers>>

NextConcRead ==
    \/ Quiet /\ DoAddOrUpdateRecipe
    \/ resp = NoResp /\ CleanUpGetItems
    \/ CleanUpGetRecipes
    \/ CleanUpWrite
    \/ CleanUpReturn
    \/ ReadFind
    \/ ReadHydrate
    \/ Respond

SpecConcRead == Init /\ [][NextConcRead]_vars

\* C23: every StepItem a GetAllRecipes call returns while a pass is writing back
\* holds the identifier stored before the pass or the canonical identifier of
\* that item's name, and as content the item record of the identifier it holds.
C23_ReadDuringPass ==
    (resp.op = "GetAllRecipes" /\ resp.err = "" /\ cu.pc \in {"write", "done"}
        /\ cu.preRecipes # <<>>) =>
        \A i \in DOMAIN resp.recipes :
            \A p \in Range(Positions(resp.recipes[i])) :
                LET got == resp.recipes[i].Steps[p[1]].Items[p[2]]
                    pre == RefAt(DocById(cu.preRecipes, resp.recipes[i].ID), p)
                IN  /\ \/ got.ItemID = pre
                       \/ /\ IsStale(cu.preItems, pre)
                          /\ got.ItemID =
                               Canonical(cu.preItems, ItemById(cu.preItems, pre).Name).ID
                    /\ got.Item = ItemById(items, got.ItemID)

\* a read that found one recipe before and one after its write-back
C23_Witness ==
    /\ resp.op = "GetAllRecipes"
    /\ resp.err = ""
    /\ cu.pc = "write"
    /\ \E i \in DOMAIN resp.recipes :
         \E p \in Range(Positions(resp.recipes[i])) :
            /\ IsStale(cu.preItems,
                       RefAt(DocById(cu.preRecipes, resp.recipes[i].ID), p))
            /\ resp.recipes[i].Steps[p[1]].Items[p[2]].ItemID #
                   RefAt(DocById(cu.preRecipes, resp.recipes[i].ID), p)

(***************************************************************************)
(* Writes of the clients that interleave with a pass: between the read of  *)
(* line 455 and the last write-back of lines 478-483 a client updates or   *)
(* deletes a recipe.  The update is kept as in the write path above.       *)
(***************************************************************************)
\* the recipe documents earlier AddOrUpdateRecipe calls left in the database:
\* every StepItem holds the identifier of a stored item
SeedStepDocs(its) ==
    {[Items |-> x] :
        x \in SeqsUpTo({[ItemID |-> id, Amount |-> a, Unit |-> u] :
                            id \in ItemIDs(its), a \in Amounts, u \in Units},
                       0, MaxStepItems)}

SeedRecipeStores(its) ==
    {[i \in DOMAIN s |-> [s[i] EXCEPT !.ID = i]] :
        s \in SeqsUpTo({[ID |-> 0, Name |-> n, Steps |-> st, CreatedAt |-> Now,
                         Deleted |-> FALSE] :
                            n \in RecipeNames,
                            st \in SeqsUpTo(SeedStepDocs(its), 0, MaxSteps)},
                       0, MaxRecipes)}

InitConcWrite ==
    /\ items \in SeedItemStores
    /\ recipes \in SeedRecipeStores(items)
    /\ cu = CuIdle
    /\ resp = NoResp
    /\ mem = NoMem
    /\ discounts = <<>>
    /\ dresp = NoDResp
    /\ fe = NoFe
    /\ sched = SchedIdle
    /\ workers = NoWorkers

\* one pass (the next one is six hours away), with at most one update and one
\* deletion of a stored recipe by a client between its read and its last write
NextConcWrite ==
    \/ cu.pc = "idle" /\ CleanUpGetItems
    \/ CleanUpGetRecipes
    \/ CleanUpWrite
    \/ cu.pc = "write" /\ resp = NoResp /\ DoDeleteRecipeById
    \/ cu.pc = "write" /\ CallAddOrUpdateRecipe /\ mem'.newRecipe.ID \in RecipeIDs(recipes)

SpecConcWrite == InitConcWrite /\ [][NextConcWrite]_vars

\* the recipe document an AddOrUpdateRecipe call kept in mem left in the store
Committed ==
    DocById(AddOrUpdateRecipe(mem.itemsBefore, mem.recipesBefore, mem.newRecipe,
                              mem.storeFails).recipes, mem.id)

\* C24: an update of a recipe that AddOrUpdateRecipe committed after a pass read
\* the catalog is what the store holds for that recipe when the pass has
\* completed.
C24_UpdateSurvivesPass ==
    (PassSucceeded /\ mem.op = "AddOrUpdateRecipe" /\ mem.err = ""
        /\ mem.newRecipe.ID # 0) =>
        DocById(recipes, mem.id).Steps = Committed.Steps

\* C29: a recipe document that is flagged deleted stays in the collection and
\* stays flagged, whatever step of a handler or of a pass is taken.
C29_NeverUndeleted ==
    [][\A i \in DOMAIN recipes :
          recipes[i].Deleted =>
              /\ i \in DOMAIN recipes'
              /\ recipes'[i].ID = recipes[i].ID
              /\ recipes'[i].Deleted]_vars

\* a pass has written back, as its last recipe, one that DeleteRecipeById flagged
\* after the pass had read it
C29_Witness ==
    /\ PassSucceeded
    /\ cu.recipes # <<>>
    /\ resp.op = "DeleteRecipeById"
    /\ resp.err = ""
    /\ resp.id = cu.recipes[Len(cu.recipes)].ID
    /\ DocById(recipes, resp.id).Deleted

(***************************************************************************)
(* GoRoutineSaveDiscountsToDB (discounts.go 167-179): the loop starts one  *)
(* goroutine per city and the function returns.  sched is the position of  *)
(* the loop, workers holds one SaveDiscountsFromAPI task per city.         *)
(***************************************************************************)
FanOutStart == [pc |-> "loop", next |-> 1]

TaskNotStarted == [WorkerIdle EXCEPT !.pc = "notStarted"]

InitFanOut ==
    /\ items = <<>>
    /\ recipes = <<>>
    /\ cu = CuIdle
    /\ resp = NoResp
    /\ mem = NoMem
    /\ discounts = <<>>
    /\ dresp = NoDResp
    /\ fe = NoFe
    /\ sched = FanOutStart
    /\ workers = [c \in Range(Cities) |-> TaskNotStarted]

\* lines 176-178: "go app.SaveDiscountsFromAPI(city)" for the next city
GoSaveDiscountsFromAPI ==
    /\ sched.pc = "loop"
    /\ sched.next <= Len(Cities)
    /\ workers' = [workers EXCEPT ![Cities[sched.next]] =
                      [TaskNotStarted EXCEPT !.pc = "started",
                                             !.city = Cities[sched.next]]]
    /\ sched' = [sched EXCEPT !.next = @ + 1]
    /\ UNCHANGED <<catalogVars, discounts, dresp, fe>>

\* line 179: the loop is over and the function returns
GoRoutineSaveDiscountsToDBReturns ==
    /\ sched.pc = "loop"
    /\ sched.next > Len(Cities)
    /\ sched' = [sched EXCEPT !.pc = "returned"]
    /\ UNCHANGED <<catalogVars, discounts, dresp, fe, workers>>

\* line 184: GetDiscountsByCityFromAPI for the city of the task
TaskFetch(t) ==
    /\ workers[t].pc = "started"
    /\ \E fetched \in FetchResults(GetMarketsByCity(workers[t].city).markets) :
         LET batch == GetDiscountsByCityFromAPI(workers[t].city, fetched)
         IN  workers' = [workers EXCEPT ![t] =
                 [@ EXCEPT !.pc = IF batch = <<>> THEN "done" ELSE "find",
                           !.batch = batch, !.pos = 1]]
    /\ UNCHANGED <<catalogVars, discounts, dresp, fe, sched>>

\* an error that ends the process instead of the task
EndTaskFatal(ws, t) ==
    IF ws[t].err # ""
    THEN [c \in DOMAIN ws |-> [ws[c] EXCEPT !.pc = "killed"]]
    ELSE [ws EXCEPT ![t].pc = "finished"]

\* lines 185-189: the error is logged, or "Done saving"; the goroutine ends
EndTask(ws, t) == [ws EXCEPT ![t].pc = "finished"]

TaskEnd(t) ==
    /\ workers[t].pc = "done"
    /\ workers' = EndTask(workers, t)
    /\ UNCHANGED <<catalogVars, discounts, dresp, fe, sched>>

TaskStep(t) == TaskFetch(t) \/ WorkerFind(t) \/ WorkerWrite(t) \/ TaskEnd(t)

NextFanOut ==
    \/ GoSaveDiscountsFromAPI
    \/ GoRoutineSaveDiscountsToDBReturns
    \/ \E t \in Range(Cities) : TaskFetch(t)
    \/ \E t \in Range(Cities) : WorkerFind(t)
    \/ \E t \in Range(Cities) : WorkerWrite(t)
    \/ \E t \in Range(Cities) : TaskEnd(t)

SpecFanOut == InitFanOut /\ [][NextFanOut]_vars

\* the Go scheduler runs every goroutine that can take a step
SpecFanOutFair ==
    /\ SpecFanOut
    /\ WF_vars(GoSaveDiscountsFromAPI \/ GoRoutineSaveDiscountsToDBReturns)
    /\ \A t \in Range(Cities) : WF_vars(TaskStep(t))

\* every discount of the batch of a task has a stored document of its market and
\* title
BatchSaved(t) ==
    \A k \in DOMAIN workers[t].batch :
        \E i \in DOMAIN discounts :
            /\ discounts[i].InternalMarketID = workers[t].batch[k].InternalMarketID
            /\ discounts[i].Title = workers[t].batch[k].Title

Matches(recipe, query, price) ==
    /\ \A k \in DOMAIN query.items :
         /\ query.items[k].exclude = {FALSE} =>
                (query.items[k].id # {} /\ query.items[k].id \subseteq recipe.itemsById)
         /\ query.items[k].exclude = {TRUE} =>
                (query.items[k].id \cap recipe.itemsById = {})
    /\ query.tags \subseteq recipe.tags
    /\ \A d \in query.duration : GetDuration(recipe) <= d
    /\ \A p \in query.price : price <= p

Suggested(suggestions) == {suggestions[k].recipe_id : k \in DOMAIN suggestions}

\* C27: two evaluations of suggestRecipes on one query and one store return the
\* same set of recipes.
C27_FilterPure ==
    fe.evaluations = 2 => Suggested(fe.suggestions) = Suggested(fe.previous)

(***************************************************************************)
(* The cache of the recipe store (src/unnamed/part_000).  Time is counted  *)
(* in hours.  A value is known by the hour the API returned it; the cache  *)
(* keeps, per key, at most one entry {date, value}; the store is empty     *)
(* when the app starts, the cache outlives the app.                        *)
(***************************************************************************)
\* 1000 * 60 * 60 * 24 milliseconds
MAX_CACHE_AGE == 24

MaxClock == 50

\* the hours that pass between two steps of the app
Waits == {12, 13}

CacheKeys == {"items", "recipes"}

\* a stale check that never calls an entry old
IsOldNever(now, date) == FALSE

\* line 73: (new Date().getTime() - cachedItem.date) > MAX_CACHE_AGE
IsOld(now, date) == (now - date) > MAX_CACHE_AGE

\* getCachedItem (lines 58-75): entry is {} or {[date, value]}
GetCachedItem(entry, now) ==
    IF entry = {} THEN [value |-> {}, isOld |-> TRUE]
    ELSE LET e == CHOOSE x \in entry : TRUE
         IN  [value |-> {e.value}, isOld |-> IsOld(now, e.date)]

\* setCachedItem (lines 37-52): the entry is stamped with the current time
SetCachedItem(cache, key, value, now) ==
    [cache EXCEPT ![key] = {[date |-> now, value |-> value]}]

NoLoad == [source |-> "", age |-> {}, value |-> {}]

CacheStart ==
    [clock |-> 0, pc |-> "items",
     cache |-> [k \in CacheKeys |-> {}],
     store |-> [k \in CacheKeys |-> {}],
     loaded |-> [k \in CacheKeys |-> NoLoad]]

InitCache ==
    /\ items = <<>>
    /\ recipes = <<>>
    /\ cu = CuIdle
    /\ resp = NoResp
    /\ mem = NoMem
    /\ discounts = <<>>
    /\ dresp = NoDResp
    /\ fe = CacheStart
    /\ sched = SchedIdle
    /\ workers = NoWorkers

\* one link of the chain of prepare (lines 315-348) for a key: the entry is
\* read; an old or missing entry makes the store fetch from the API
\* (fetchItems 482-497, fetchRecipes 466-481), which fills store and cache
\* unless the API answers with an error; any other entry fills the store
\* (replaceItems 414-417, replaceRecipes 370-373) and is cached again
PrepareKey(key, next) ==
    /\ fe.pc = key
    /\ LET cachedItem == GetCachedItem(fe.cache[key], fe.clock)
           age == {fe.clock - e.date : e \in fe.cache[key]}
       IN  IF cachedItem.isOld \/ cachedItem.value = {}
           THEN \E error \in BOOLEAN :
                  fe' = IF error
                        THEN [fe EXCEPT !.pc = next,
                                        !.loaded[key] = [source |-> "apiError",
                                                         age |-> age, value |-> {}]]
                        ELSE [fe EXCEPT !.pc = next,
                                        !.store[key] = {fe.clock},
                                        !.cache = SetCachedItem(fe.cache, key,
                                                                fe.clock, fe.clock),
                                        !.loaded[key] = [source |-> "api", age |-> age,
                                                         value |-> {fe.clock}]]
           ELSE fe' = [fe EXCEPT !.pc = next,
                                 !.store[key] = cachedItem.value,
                                 !.cache = SetCachedItem(fe.cache, key,
                                              CHOOSE v \in cachedItem.value : TRUE,
                                              fe.clock),
                                 !.loaded[key] = [source |-> "cache", age |-> age,
                                                  value |-> cachedItem.value]]
    /\ UNCHANGED backendVars

PrepareItems == PrepareKey("items", "recipes")

PrepareRecipes == PrepareKey("recipes", "ready")

\* the app is closed and opened again: the store starts empty, prepare runs
AppStart ==
    /\ fe.pc = "ready"
    /\ fe' = [fe EXCEPT !.pc = "items",
                        !.store = [k \in CacheKeys |-> {}],
                        !.loaded = [k \in CacheKeys |-> NoLoad]]
    /\ UNCHANGED backendVars

TimePasses ==
    /\ \E d \in Waits :
         /\ fe.clock + d <= MaxClock
         /\ fe' = [fe EXCEPT !.clock = @ + d]
    /\ UNCHANGED backendVars

NextCache ==
    \/ PrepareItems
    \/ PrepareRecipes
    \/ AppStart
    \/ TimePasses

SpecCache == InitCache /\ [][NextCache]_vars

\* C28: prepare fills a key of the store from the cache only from an entry
\* that exists and is at most 24 hours old; with no entry or an older one it
\* asks the API, and what the store then holds is what the API returned.
C28_CacheFreshness ==
    \A k \in CacheKeys :
        /\ fe.loaded[k].source = "cache" =>
              /\ fe.loaded[k].age # {}
              /\ \A a \in fe.loaded[k].age : a <= MAX_CACHE_AGE
        /\ (fe.loaded[k].source # ""
              /\ (fe.loaded[k].age = {} \/ \E a \in fe.loaded[k].age : a > MAX_CACHE_AGE)) =>
              /\ fe.loaded[k].source \in {"api", "apiError"}
              /\ fe.loaded[k].source = "apiError" => fe.loaded[k].value = {}

\* prepare met an entry of exactly 24 hours and used it, and met an older one
\* for the other key
C28_Witness ==
    /\ fe.loaded["items"].source = "cache"
    /\ fe.loaded["items"].age = {MAX_CACHE_AGE}
    /\ fe.loaded["recipes"].source = "api"
    /\ \E a \in fe.loaded["recipes"].age : a > MAX_CACHE_AGE

\* the store after the first n discounts of a batch were upserted in order
RECURSIVE AfterPrefix(_, _, _)
AfterPrefix(store, batch, n) ==
    IF n = 0 THEN store
    ELSE UpsertDiscount(AfterPrefix(store, batch, n - 1), batch[n])

====
